---- MODULE Spec2Model ----
(***************************************************************************)
(* Model of sql_practice.py: per-semester .csv files are loaded into one   *)
(* table each of the SQLite store classes.db, the tables are consolidated  *)
(* into ClassData, and ClassData is queried (enrollment view, popularity   *)
(* view, search).                                                          *)
(*                                                                         *)
(* Text is modelled as a sequence of one-character strings, so that        *)
(* str.strip, LIKE and the BINARY collation are computed character by      *)
(* character.  Numeric csv cells are digit strings that the INT column     *)
(* affinity stores as integers; they are modelled as naturals.             *)
(***************************************************************************)
EXTENDS Integers, Sequences, FiniteSets, Bags, TLC

VARIABLES
    tables,        \* the period tables of classes.db: table name -> rows in rowid order
    hasClassData,  \* whether table ClassData exists in classes.db
    ClassData,     \* the rows of table ClassData (a bag of 5-tuples)
    table_names,   \* populate_db's local list at the end of its last call
    csv_files,     \* the files the last populate_db call discovered, in glob order
    op,            \* the operation called last
    arg,           \* its argument (threshold or descr), <<>> when it has none
    err,           \* the exception that reached the caller, "none" on a normal return
    origErr,       \* the first exception raised inside that call
    open_conns,    \* connections opened by that call and not closed at its exit
    labels,        \* visualize_*: the course IDs handed to the chart
    values,        \* visualize_*: the enrollments / popularities handed to the chart
    results,       \* search_db: the fetched rows
    answer,        \* search_db: the returned text, one element per line
    runs           \* number of populate_db calls so far

vars == <<tables, hasClassData, ClassData, table_names, csv_files, op, arg, err,
          origErr, open_conns, labels, values, results, answer, runs>>

----------------------------------------------------------------------------
(* Bounds of the model *)

MaxRows == 2        \* data rows per csv file
MaxFiles == 2       \* csv files discovered by one populate_db call
MaxRuns == 2        \* populate_db calls in one behaviour
MaxThreshold == 3   \* thresholds 0..MaxThreshold

(* Text constants *)
Ext == <<".", "c", "s", "v">>
T_a == <<"a">>
T_b == <<"b">>
T_M1 == <<"M", "1">>
T_P2 == <<"P", "2">>
T_Al == <<"A", "l">>
T_Bo == <<"B", "o">>
T_Q3 == <<"Q", "3">>
T_Ca == <<"C", "a">>

\* File names a directory may hold: a.csv, sa.csv, b.csv
FileNames == { T_a \o Ext, <<"s", "a">> \o Ext, T_b \o Ext }

\* The header row every csv file starts with
Header == << <<"I", "D">>, 0, 0, <<"N">> >>

\* Data rows (Course ID, Size, NumEnrl, Name)
Rows == { <<T_M1, 2, 1, T_Al>>, <<T_P2, 0, 1, T_Bo>> }

\* A larger choice of rows, for the stores the queries run on
QueryRows == Rows \cup { <<T_Q3, 1, 3, T_Ca>> }

RECURSIVE SeqsUpTo(_, _)
SeqsUpTo(S, n) ==
    IF n = 0 THEN { <<>> }
    ELSE LET shorter == SeqsUpTo(S, n - 1)
         IN  shorter \cup { Append(s, x) : s \in { t \in shorter : Len(t) = n - 1 }, x \in S }

\* Contents of a csv file: the header followed by at most MaxRows data rows
FileContents(rowSet) == { <<Header>> \o d : d \in SeqsUpTo(rowSet, MaxRows) }

IsInjective(s) == \A i, j \in 1..Len(s) : s[i] = s[j] => i = j

\* What glob.glob('*.csv') may return: distinct names in any order, with their contents
DirectoriesOf(rowSet) ==
    UNION { { [i \in 1..Len(names) |-> [file |-> names[i], rows |-> c[i]]] :
                c \in [1..Len(names) -> FileContents(rowSet)] } :
            names \in { s \in SeqsUpTo(FileNames, MaxFiles) : IsInjective(s) } }

Directories == DirectoriesOf(Rows)

QueryDirectories == DirectoriesOf(QueryRows)

----------------------------------------------------------------------------
(* get_csv_data *)

get_csv_data(rows) == IF rows = <<>> THEN <<>> ELSE Tail(rows)

(* str.strip(".csv"): removes leading and trailing characters of the set *)
StripChars == { ".", "c", "s", "v" }

RECURSIVE LStrip(_)
LStrip(s) == IF s # <<>> /\ Head(s) \in StripChars THEN LStrip(Tail(s)) ELSE s

RECURSIVE RStrip(_)
RStrip(s) ==
    IF s # <<>> /\ s[Len(s)] \in StripChars THEN RStrip(SubSeq(s, 1, Len(s) - 1)) ELSE s

Strip(s) == RStrip(LStrip(s))

----------------------------------------------------------------------------
(* The store *)

Letters == { "a", "b", "c", "l", "m", "o", "p", "q", "s", "v", "A", "B", "C", "M", "P", "Q" }
Digits == { "1", "2", "3" }

\* Whether SQLite reads the text as one identifier token in "DROP TABLE IF EXISTS <name>;"
IsIdentifier(name) ==
    /\ name # <<>>
    /\ name[1] \in Letters \cup { "_" }
    /\ \A i \in 1..Len(name) : name[i] \in Letters \cup Digits \cup { "_" }

\* SetTable without the DROP TABLE: the rows are added to those the table holds
SetTable_Append(tbls, n, rows) ==
    [x \in DOMAIN tbls \cup { n } |->
        IF x = n THEN (IF n \in DOMAIN tbls THEN tbls[n] \o rows ELSE rows) ELSE tbls[x]]

\* The table named n replaced by one holding rows
SetTable(tbls, n, rows) ==
    [x \in DOMAIN tbls \cup { n } |-> IF x = n THEN rows ELSE tbls[x]]

\* conn.close() in a finally clause: the local conn is "unbound", "open" or "closed"
FinallyClose(st, raised) ==
    [st EXCEPT !.conn = IF st.conn = "open" THEN "closed" ELSE st.conn,
               !.open = IF st.conn = "open" THEN st.open - 1 ELSE st.open,
               !.orig = raised,
               !.err = IF st.conn = "unbound" THEN "UnboundLocalError" ELSE raised]

\* sql.connect: a new connection bound to conn
Connect(st) == [st EXCEPT !.conn = "open", !.open = st.open + 1]

\* One iteration of populate_db's loop over csv_files (lines 31-44)
LoadFile(st, f, connects) ==
    LET sem_data == get_csv_data(f.rows)
        table_name == Strip(f.file)
        st1 == [st EXCEPT !.names = Append(st.names, table_name)]
    IN  IF ~connects THEN FinallyClose(st1, "OperationalError")
        ELSE LET st2 == Connect(st1)
             IN  IF ~IsIdentifier(table_name)
                 THEN FinallyClose(st2, "OperationalError")
                 ELSE IF \E i \in 1..Len(sem_data) : Len(sem_data[i]) # 4
                      THEN \* executemany raises, the inserts roll back, DROP/CREATE stay
                           FinallyClose([st2 EXCEPT !.tables =
                                            SetTable(st2.tables, table_name, <<>>)],
                                        "ProgrammingError")
                      ELSE FinallyClose([st2 EXCEPT !.tables =
                                            SetTable(st2.tables, table_name, sem_data)],
                                        "none")

RECURSIVE LoadFiles(_, _, _, _)
LoadFiles(st, files, i, connects) ==
    IF i > Len(files) \/ st.err # "none" THEN st
    ELSE LoadFiles(LoadFile(st, files[i], connects), files, i + 1, connects)

\* The rows of a period table tagged with the semester: SELECT *, '<name>' FROM <name>
Tagged(tbls, name) ==
    LET t == tbls[name] IN [i \in 1..Len(t) |-> t[i] \o <<name>>]

RECURSIVE SeqToBag(_)
SeqToBag(s) == IF s = <<>> THEN EmptyBag ELSE SetToBag({ Head(s) }) (+) SeqToBag(Tail(s))

Range(s) == { s[i] : i \in 1..Len(s) }

\* UnionQuery without the loop over table_names[1:]
UnionQuery_FirstOnly(tbls, names) == SeqToBag(Tagged(tbls, names[1]))

\* The rows the INSERT ... SELECT of lines 54-59 puts into ClassData: one SELECT keeps
\* every row, a compound SELECT with UNION keeps each distinct row once
UnionQuery(tbls, names) ==
    IF Len(names) = 1 THEN SeqToBag(Tagged(tbls, names[1]))
    ELSE SetToBag(UNION { Range(Tagged(tbls, names[i])) : i \in 1..Len(names) })

\* The second half of populate_db (lines 47-61)
Consolidate(st, connects) ==
    IF ~connects THEN FinallyClose(st, "OperationalError")
    ELSE LET st1 == [Connect(st) EXCEPT !.has = TRUE, !.data = EmptyBag]
         IN  IF st.names = <<>> THEN FinallyClose(st1, "IndexError")
             ELSE FinallyClose([st1 EXCEPT !.data = UnionQuery(st1.tables, st1.names)],
                               "none")

\* populate_db as a whole, on the store (tbls, has, data).  connects: whether classes.db
\* can be opened while the call runs (the program is single-threaded, so every
\* sql.connect of one call has the same outcome)
PopulateResult(tbls, has, data, files, connects) ==
    LET st0 == [tables |-> tbls, has |-> has, data |-> data, names |-> <<>>,
                conn |-> "unbound", open |-> 0, err |-> "none", orig |-> "none"]
        st1 == LoadFiles(st0, files, 1, connects)
    IN  IF st1.err # "none" THEN st1
        ELSE Consolidate(st1, connects)

----------------------------------------------------------------------------
(* Text comparison *)

\* ASCII codes of the characters of the model
Code == [c \in Letters \cup Digits \cup { "%", ".", "_", " ", "\t", ":", "D", "I", "N", "R", "S", "e", "h", "r", "t", "u" } |->
    CASE c = "\t" -> 9    [] c = " " -> 32   [] c = "%" -> 37   [] c = "." -> 46
      [] c = "1" -> 49    [] c = "2" -> 50   [] c = "3" -> 51   [] c = ":" -> 58
      [] c = "A" -> 65    [] c = "B" -> 66   [] c = "C" -> 67   [] c = "D" -> 68
      [] c = "I" -> 73    [] c = "M" -> 77   [] c = "N" -> 78   [] c = "P" -> 80
      [] c = "Q" -> 81    [] c = "R" -> 82   [] c = "S" -> 83
      [] c = "_" -> 95    [] c = "a" -> 97   [] c = "b" -> 98   [] c = "c" -> 99
      [] c = "e" -> 101   [] c = "h" -> 104  [] c = "l" -> 108  [] c = "m" -> 109
      [] c = "o" -> 111   [] c = "p" -> 112  [] c = "q" -> 113  [] c = "r" -> 114
      [] c = "s" -> 115
      [] c = "t" -> 116   [] c = "u" -> 117  [] c = "v" -> 118]

\* SQLite's LIKE folds the case of ASCII letters
Lower(c) ==
    CASE c = "A" -> "a" [] c = "B" -> "b" [] c = "C" -> "c" [] c = "D" -> "d"
      [] c = "I" -> "i" [] c = "M" -> "m" [] c = "N" -> "n" [] c = "P" -> "p"
      [] c = "Q" -> "q" [] c = "R" -> "r" [] c = "S" -> "s" [] OTHER -> c

\* text LIKE pattern: % matches any run of characters, _ any one character
RECURSIVE Like(_, _)
Like(text, pattern) ==
    IF pattern = <<>> THEN text = <<>>
    ELSE IF Head(pattern) = "%"
         THEN Like(text, Tail(pattern)) \/ (text # <<>> /\ Like(Tail(text), pattern))
         ELSE /\ text # <<>>
              /\ Head(pattern) = "_" \/ Lower(Head(pattern)) = Lower(Head(text))
              /\ Like(Tail(text), Tail(pattern))

\* The BINARY collation of ORDER BY on TEXT: s sorts before t
RECURSIVE TextLess(_, _)
TextLess(s, t) ==
    IF t = <<>> THEN FALSE
    ELSE IF s = <<>> THEN TRUE
    ELSE IF Head(s) # Head(t) THEN Code[Head(s)] < Code[Head(t)]
    ELSE TextLess(Tail(s), Tail(t))

\* Every way to list the elements of S so that each element may stand before all
\* later ones (an ORDER BY fixes no order among rows with equal keys)
RECURSIVE Orderings(_, _)
Orderings(S, mayPrecede) ==
    IF S = {} THEN { <<>> }
    ELSE UNION { { <<x>> \o s : s \in Orderings(S \ { x }, mayPrecede) } :
                 x \in { y \in S : \A z \in S : <<y, z>> \in mayPrecede } }

----------------------------------------------------------------------------
(* Aggregates over ClassData, GROUP BY ID *)

CourseIDs(data) == { r[1] : r \in BagToSet(data) }

RECURSIVE SumOver(_, _, _)
SumOver(R, data, col) ==
    IF R = {} THEN 0
    ELSE LET r == CHOOSE x \in R : TRUE
         IN  r[col] * CopiesIn(r, data) + SumOver(R \ { r }, data, col)

\* SUM(<col>) of the group of course id; col 2 is Size, col 3 is NumEnrl
GroupSum(data, id, col) == SumOver({ r \in BagToSet(data) : r[1] = id }, data, col)

RECURSIVE GCD(_, _)
GCD(m, n) == IF n = 0 THEN m ELSE GCD(n, m % n)

\* The value NULL of a popularity
NULL == <<0, 0>>

\* CAST(n AS FLOAT)/CAST(d AS FLOAT): the quotient as a fraction in lowest terms,
\* NULL when the divisor is 0
Quotient(n, d) == IF d = 0 THEN NULL ELSE <<n \div GCD(n, d), d \div GCD(n, d)>>

\* ORDER BY ... DESC of popularities: p may stand before q (NULL sorts last)
PopularityGE(p, q) ==
    \/ q = NULL
    \/ p # NULL /\ p[1] * q[2] >= q[1] * p[2]

\* The list comprehensions of lines 76-77 and 106-107: the field out of every fetched
\* tuple whose field total is at least the threshold
RECURSIVE Kept(_, _, _, _)
Kept(stats, out, total, threshold) ==
    IF stats = <<>> THEN <<>>
    ELSE IF Head(stats)[total] >= threshold
         THEN <<Head(stats)[out]>> \o Kept(Tail(stats), out, total, threshold)
         ELSE Kept(Tail(stats), out, total, threshold)

\* EnrollmentStats with ORDER BY TotalEnrl ASC
EnrollmentStats_Asc(data) ==
    LET groups == { <<id, GroupSum(data, id, 3)>> : id \in CourseIDs(data) }
    IN  Orderings(groups, { <<g, h>> \in groups \X groups : g[2] <= h[2] })

\* The rows the query of visualize_enrollment may fetch (lines 71-73)
EnrollmentStats(data) ==
    LET groups == { <<id, GroupSum(data, id, 3)>> : id \in CourseIDs(data) }
    IN  Orderings(groups, { <<g, h>> \in groups \X groups : g[2] >= h[2] })

\* The rows the query of visualize_popularity may fetch (lines 100-103)
PopularityStats(data) ==
    LET groups == { <<id, Quotient(GroupSum(data, id, 3), GroupSum(data, id, 2)),
                      GroupSum(data, id, 3)>> : id \in CourseIDs(data) }
    IN  Orderings(groups, { <<g, h>> \in groups \X groups : PopularityGE(g[2], h[2]) })

----------------------------------------------------------------------------
(* search_db *)

Wild == <<"%">>

\* The WHERE clause of lines 133-134
Matches(r, descr) ==
    \/ Like(r[1], descr)
    \/ Like(r[4], Wild \o descr \o Wild)
    \/ Like(r[5], Wild \o descr \o Wild)

\* SearchOrder with Semester ASC
SearchOrder_SemesterAsc(r, q) ==
    \/ TextLess(r[1], q[1])
    \/ r[1] = q[1] /\ ~TextLess(q[5], r[5])

\* ORDER BY ID ASC, Semester DESC
SearchOrder(r, q) ==
    \/ TextLess(r[1], q[1])
    \/ r[1] = q[1] /\ ~TextLess(r[5], q[5])

\* The rows search_db may fetch: each matching row once per copy, (ID, Name, Semester)
SearchResults(data, descr) ==
    LET hits == { <<r, k>> : r \in { x \in BagToSet(data) : Matches(x, descr) },
                             k \in 1..BagCardinality(data) }
        copies == { h \in hits : h[2] <= CopiesIn(h[1], data) }
        before == { <<g, h>> \in copies \X copies : SearchOrder(g[1], h[1]) }
    IN  { [i \in 1..Len(s) |-> <<s[i][1][1], s[i][1][4], s[i][1][5]>>] :
          s \in Orderings(copies, before) }

NameWidth == 30
SemesterWidth == 10

RECURSIVE Spaces(_)
Spaces(n) == IF n <= 0 THEN <<>> ELSE <<" ">> \o Spaces(n - 1)

\* Format specs :<30 and : >10: pad to the width, never cut
PadRight(s, w) == s \o Spaces(w - Len(s))
PadLeft(s, w) == Spaces(w - Len(s)) \o s

TitleLine == <<"S", "e", "a", "r", "c", "h", " ", "R", "e", "s", "u", "l", "t", "s", ":">>
HeaderLine == <<"I", "D", "\t">> \o PadRight(<<"N", "a", "m", "e">>, NameWidth)
                \o PadLeft(<<"S", "e", "m", "e", "s", "t", "e", "r">>, SemesterWidth)

FormatRow(tup) ==
    tup[1] \o <<"\t">> \o PadRight(tup[2], NameWidth) \o PadLeft(tup[3], SemesterWidth)

\* The text search_db returns, as its lines
FormatAnswer(rows) == <<TitleLine, HeaderLine>> \o [i \in 1..Len(rows) |-> FormatRow(rows[i])]

----------------------------------------------------------------------------
(* try: with sql.connect(...) as conn: <query> finally: conn.close()            *)
(* of the three query functions: what reaches the caller                       *)

QueryOutcome(connects, has) ==
    LET st0 == [conn |-> "unbound", open |-> 0, err |-> "none", orig |-> "none"]
    IN  IF ~connects THEN FinallyClose(st0, "OperationalError")
        ELSE IF ~has THEN FinallyClose(Connect(st0), "OperationalError")
        ELSE FinallyClose(Connect(st0), "none")

Thresholds == 0..MaxThreshold

Descrs == { T_M1, <<"m", "1">>, <<"M", "_">>, Wild, T_a, <<"l">>, <<"b", "b">> }

Init ==
    /\ tables = << >>
    /\ hasClassData = FALSE
    /\ ClassData = EmptyBag
    /\ table_names = <<>>
    /\ csv_files = <<>>
    /\ op = "none"
    /\ arg = <<>>
    /\ err = "none"
    /\ origErr = "none"
    /\ open_conns = 0
    /\ labels = <<>>
    /\ values = <<>>
    /\ results = <<>>
    /\ answer = <<>>
    /\ runs = 0

populate_db ==
    /\ runs < MaxRuns
    /\ \E files \in Directories, connects \in BOOLEAN :
         /\ \E r \in { PopulateResult(tables, hasClassData, ClassData, files, connects) } :
                /\ tables' = r.tables
                /\ hasClassData' = r.has
                /\ ClassData' = r.data
                /\ table_names' = r.names
                /\ err' = r.err
                /\ origErr' = r.orig
                /\ open_conns' = r.open
         /\ csv_files' = files
    /\ op' = "populate_db"
    /\ arg' = <<>>
    /\ labels' = <<>>
    /\ values' = <<>>
    /\ results' = <<>>
    /\ answer' = <<>>
    /\ runs' = runs + 1

visualize_enrollment ==
    \E threshold \in Thresholds, connects \in BOOLEAN :
      \E o \in { QueryOutcome(connects, hasClassData) } :
          /\ \E stats \in (IF o.err = "none" THEN EnrollmentStats(ClassData) ELSE { <<>> }) :
               /\ labels' = Kept(stats, 1, 2, threshold)
               /\ values' = Kept(stats, 2, 2, threshold)
          /\ err' = o.err
          /\ origErr' = o.orig
          /\ open_conns' = o.open
          /\ op' = "visualize_enrollment"
          /\ arg' = threshold
          /\ results' = <<>>
          /\ answer' = <<>>
          /\ UNCHANGED <<tables, hasClassData, ClassData, table_names, csv_files, runs>>

visualize_popularity ==
    \E threshold \in Thresholds, connects \in BOOLEAN :
      \E o \in { QueryOutcome(connects, hasClassData) } :
          /\ \E stats \in (IF o.err = "none" THEN PopularityStats(ClassData) ELSE { <<>> }) :
               /\ labels' = Kept(stats, 1, 3, threshold)
               /\ values' = Kept(stats, 2, 3, threshold)
          /\ err' = o.err
          /\ origErr' = o.orig
          /\ open_conns' = o.open
          /\ op' = "visualize_popularity"
          /\ arg' = threshold
          /\ results' = <<>>
          /\ answer' = <<>>
          /\ UNCHANGED <<tables, hasClassData, ClassData, table_names, csv_files, runs>>

search_db ==
    \E descr \in Descrs, connects \in BOOLEAN :
      \E o \in { QueryOutcome(connects, hasClassData) } :
          /\ \E rows \in (IF o.err = "none" THEN SearchResults(ClassData, descr) ELSE { <<>> }) :
               /\ results' = rows
               /\ answer' = IF o.err = "none" THEN FormatAnswer(rows) ELSE <<>>
          /\ err' = o.err
          /\ origErr' = o.orig
          /\ open_conns' = o.open
          /\ op' = "search_db"
          /\ arg' = descr
          /\ labels' = <<>>
          /\ values' = <<>>
          /\ UNCHANGED <<tables, hasClassData, ClassData, table_names, csv_files, runs>>

Next == populate_db

Spec == Init /\ [][Next]_vars

\* The queries, on every store one populate_db call leaves behind
InitQuery ==
    /\ \E files \in QueryDirectories, connects \in BOOLEAN :
         \E r \in { PopulateResult(<< >>, FALSE, EmptyBag, files, connects) } :
             /\ tables = r.tables
             /\ hasClassData = r.has
             /\ ClassData = r.data
             /\ table_names = r.names
             /\ err = r.err
             /\ origErr = r.orig
             /\ open_conns = r.open
             /\ csv_files = files
    /\ op = "populate_db"
    /\ arg = <<>>
    /\ labels = <<>>
    /\ values = <<>>
    /\ results = <<>>
    /\ answer = <<>>
    /\ runs = 1

NextQuery == visualize_enrollment \/ visualize_popularity \/ search_db

SpecQuery == InitQuery /\ [][NextQuery]_vars

----------------------------------------------------------------------------
(* Properties.  The operators of this section restate what the claims say; *)
(* they use none of the query operators above.                             *)

PopulateReturned == op = "populate_db" /\ err = "none"

\* The semester-tagged rows of the period tables named in N
TaggedRowsOf(N) ==
    UNION { { tables[p][i] \o <<p>> : i \in 1..Len(tables[p]) } : p \in N \cap DOMAIN tables }

RECURSIVE RowCount(_)
RowCount(N) ==
    IF N = {} THEN 0
    ELSE LET p == CHOOSE x \in N : TRUE IN Len(tables[p]) + RowCount(N \ { p })

\* Some period table holds the same row twice
HasDuplicateRows == \E p \in DOMAIN tables : ~IsInjective(tables[p])

\* A period table of an earlier run, not rebuilt by the last one, still holds rows
HasStaleRows == \E p \in DOMAIN tables \ Range(table_names) : tables[p] # <<>>

\* C1: after a successful populate_db, ClassData holds as many rows as the period
\* tables built in that run hold together (no row is dropped as a duplicate)
C1_RowCount == PopulateReturned => BagCardinality(ClassData) = RowCount(Range(table_names))

\* C2: after successful populate_db runs, the rows of ClassData are exactly the tagged
\* rows of every period table that exists in the store, tables of earlier runs included
C2_AllTables == PopulateReturned => BagToSet(ClassData) = TaggedRowsOf(DOMAIN tables)

\* C2, as amended: after successful populate_db runs, the rows of ClassData are exactly
\* the tagged rows of the period tables the last run built
C2_LastRunTables ==
    PopulateReturned =>
        /\ Range(table_names) \subseteq DOMAIN tables
        /\ \A t \in BagToSet(ClassData) : t \in TaggedRowsOf(Range(table_names))
        /\ \A t \in TaggedRowsOf(Range(table_names)) : BagIn(t, ClassData)

C2_Witness ==
    /\ PopulateReturned
    /\ runs = 2
    /\ HasStaleRows
    /\ Len(table_names) = 2
    /\ BagCardinality(ClassData) >= 2

\* C3: populate_db is idempotent: after a call that could open the store, whatever the
\* store held before it, a second call on the same files leaves every period table and
\* ClassData as the first call left them
C3_Idempotent ==
    (op = "populate_db" /\ origErr # "OperationalError") =>
        LET again == PopulateResult(tables, hasClassData, ClassData, csv_files, TRUE)
        IN  /\ again.tables = tables
            /\ again.has = hasClassData
            /\ again.data = ClassData
            /\ again.err = err

C3_Witness ==
    /\ PopulateReturned
    /\ runs = 2
    /\ HasStaleRows
    /\ HasDuplicateRows
    /\ ClassData # EmptyBag

\* SUM(col) over the ClassData rows of course id, one copy of a row at a time
RECURSIVE ColumnTotal(_, _, _)
ColumnTotal(data, id, col) ==
    IF \A r \in BagToSet(data) : r[1] # id THEN 0
    ELSE LET r == CHOOSE x \in BagToSet(data) : x[1] = id
         IN  r[col] + ColumnTotal(data (-) SetToBag({ r }), id, col)

TotalEnrolled(id) == ColumnTotal(ClassData, id, 3)
TotalCapacity(id) == ColumnTotal(ClassData, id, 2)

EnrollmentReturned == op = "visualize_enrollment" /\ err = "none"
PopularityReturned == op = "visualize_popularity" /\ err = "none"
SearchReturned == op = "search_db" /\ err = "none"

\* C4: the enrollment view lists each course whose total enrollment is at least the
\* threshold exactly once and no other course, with that total, in non-increasing
\* order of the total
C4_EnrollmentView ==
    EnrollmentReturned =>
        /\ Len(labels) = Len(values)
        /\ IsInjective(labels)
        /\ Range(labels) = { id \in CourseIDs(ClassData) : TotalEnrolled(id) >= arg }
        /\ \A i \in 1..Len(labels) : values[i] = TotalEnrolled(labels[i])
        /\ \A i, j \in 1..Len(values) : i < j => values[i] >= values[j]

C4_Witness ==
    /\ EnrollmentReturned
    /\ arg = 2
    /\ Len(labels) = 2
    /\ values[1] > values[2]
    /\ Cardinality(CourseIDs(ClassData)) = 3

C6_ZeroCapacityExcluded ==
    PopularityReturned =>
        \A i \in 1..Len(labels) : TotalCapacity(labels[i]) # 0 /\ values[i] # NULL

\* s occurs in t as a run of consecutive characters
Contains(t, s) == \E k \in 0..(Len(t) - Len(s)) : SubSeq(t, k + 1, k + Len(s)) = s

\* C7: search_db returns a row exactly when its course ID equals descr, or its name
\* contains descr, or its semester contains descr
C7_SearchMatch ==
    SearchReturned =>
        Range(results) = { <<r[1], r[4], r[5]>> :
                           r \in { x \in BagToSet(ClassData) :
                                     \/ x[1] = arg
                                     \/ Contains(x[4], arg)
                                     \/ Contains(x[5], arg) } }

\* s = t or s comes before t in the lexicographic order of character codes
RECURSIVE LexLE(_, _)
LexLE(s, t) ==
    \/ s = <<>>
    \/ /\ t # <<>>
       /\ \/ Code[s[1]] < Code[t[1]]
          \/ s[1] = t[1] /\ LexLE(Tail(s), Tail(t))

\* C8: search_db returns its rows by course ID ascending and, within one course ID, by
\* semester descending; its text is the two header lines and one line per row (the
\* header lines alone when no row matches)
C8_SearchOrder ==
    SearchReturned =>
        /\ \A i, j \in 1..Len(results) :
             i < j => /\ LexLE(results[i][1], results[j][1])
                      /\ results[i][1] = results[j][1] => LexLE(results[j][3], results[i][3])
        /\ Len(answer) = Len(results) + 2
        /\ answer[1] = TitleLine /\ answer[2] = HeaderLine
        /\ \A i \in 1..Len(results) :
             /\ Len(answer[i + 2]) = Len(results[i][1]) + 1 + NameWidth + SemesterWidth
             /\ SubSeq(answer[i + 2], 1, Len(results[i][1])) = results[i][1]
             /\ Contains(answer[i + 2], <<"\t">> \o results[i][2] \o <<" ">>)
             /\ SubSeq(answer[i + 2], Len(answer[i + 2]) - Len(results[i][3]) + 1,
                       Len(answer[i + 2])) = results[i][3]

C8_Witness ==
    /\ SearchReturned
    /\ Len(results) = 3
    /\ results[1][1] = results[2][1]
    /\ results[1][3] # results[2][3]
    /\ results[2][1] # results[3][1]

\* The file name without its last four characters, the extension .csv
Stem(file) == SubSeq(file, 1, Len(file) - Len(Ext))

\* C9: the period identifier of every discovered file <stem>.csv, the name of its
\* period table and its tag in ClassData, is <stem>, so that distinct files have
\* distinct period identifiers
C9_PeriodIsStem ==
    PopulateReturned =>
        /\ Len(table_names) = Len(csv_files)
        /\ \A i \in 1..Len(table_names) : table_names[i] = Stem(csv_files[i].file)
        /\ IsInjective(table_names)
        /\ \A t \in BagToSet(ClassData) : \E i \in 1..Len(csv_files) : t[5] = Stem(csv_files[i].file)

\* C10: every operation exits with none of its connections open, and the error that
\* reaches the caller is the failure that occurred
C10_ReleaseAndReraise == op # "none" => open_conns = 0 /\ err = origErr

====
